---- MODULE Spec2Model ----
(***************************************************************************)
(* A model of tinytuya/Contrib/BreakerDevice.py: the BreakerDevice state   *)
(* (attributes set from dps_data, the three sensor lists, the pending      *)
(* update buffer) and its operations _inspect_data, setValue, setValues,   *)
(* parseValue, BreakerSensorPhase.update and BreakerAlarmSet.update.       *)
(*                                                                         *)
(* Python values are tagged records, so that None, bool, int, float, str   *)
(* and bytes stay distinct:  [t |-> "None"], [t |-> "bool", v |-> TRUE],   *)
(* [t |-> "int", v |-> 5], [t |-> "float", n |-> 12345, d |-> 100] (the    *)
(* quotient n/d in lowest terms), [t |-> "str", v |-> "1"] and             *)
(* [t |-> "bytes", v |-> <<...>>].  A str that carries base64 text is the  *)
(* sequence of its characters' alphabet indices (0..63, 64 for '=').       *)
(***************************************************************************)
EXTENDS Integers, Sequences, FiniteSets, TLC

VARIABLES attrs, sensorlists, delay_updates, delayed_updates, sent, result,
          class_dps_data, other

vars == <<attrs, sensorlists, delay_updates, delayed_updates, sent, result,
          class_dps_data, other>>

(* ------------------------------ bounds --------------------------------- *)

\* Longest alarm record, in 4-byte entries, a direct update call is given.
MaxEntries == 2

\* Longest payload, in data points, _inspect_data is given.
MaxPayload == 2

\* Longest val_dict setValues is given.
MaxDict == 2

\* Number of payloads the session collaborator is recorded to have been sent.
MaxSent == 2

\* Largest integer v the round trip decode(encode(v)) is given.
MaxRoundTrip == 3

\* Longest phase input, in 8-byte records.
MaxRecords == 2

(* --------------------------- Python values ----------------------------- *)

None == [t |-> "None"]

PyBool(b) == [t |-> "bool", v |-> b]

PyInt(i) == [t |-> "int", v |-> i]

PyStr(s) == [t |-> "str", v |-> s]

PyBytes(s) == [t |-> "bytes", v |-> s]

RECURSIVE GCD(_, _)
GCD(a, b) == IF b = 0 THEN a ELSE GCD(b, a % b)

\* The float n/d.  Every quotient the model forms has |n| < 2^24 and d in
\* {1, 10, 100, 1000}; on that range two quotients are the same double
\* exactly when they are the same rational, so the float is kept in lowest terms.
PyFloat(n, d) ==
    LET g == GCD(IF n < 0 THEN -n ELSE n, d)
    IN  IF n = 0 THEN [t |-> "float", n |-> 0, d |-> 1]
        ELSE [t |-> "float", n |-> n \div g, d |-> d \div g]

IsNumber(x) == x.t \in {"bool", "int", "float"}

\* A number as a fraction <<numerator, denominator>>; True is 1, False is 0.
AsFraction(x) ==
    CASE x.t = "bool"  -> <<IF x.v THEN 1 ELSE 0, 1>>
      [] x.t = "int"   -> <<x.v, 1>>
      [] x.t = "float" -> <<x.n, x.d>>

\* Python's a == b: numbers compare by value across bool, int and float,
\* None equals only None, str and bytes compare with their own type.
PyEq(a, b) ==
    IF IsNumber(a) /\ IsNumber(b)
        THEN AsFraction(a)[1] * AsFraction(b)[2] = AsFraction(b)[1] * AsFraction(a)[2]
    ELSE IF a.t # b.t THEN FALSE
    ELSE IF a.t = "None" THEN TRUE
    ELSE a.v = b.v

\* Python's truth value, bool(x).
Truthy(x) ==
    CASE x.t = "None"  -> FALSE
      [] x.t = "bool"  -> x.v
      [] x.t = "int"   -> x.v # 0
      [] x.t = "float" -> x.n # 0
      [] x.t = "str"   -> x.v # ""
      [] x.t = "dict"  -> DOMAIN x.v # {}
      [] OTHER         -> x.v # <<>>

\* int(x) of a number: truncation toward zero.
Trunc(n, d) == IF n >= 0 THEN n \div d ELSE -((-n) \div d)

PyIntOf(x) == PyInt(Trunc(AsFraction(x)[1], AsFraction(x)[2]))

\* x / k for an int k: true division, a float.
PyTrueDiv(x, k) == PyFloat(AsFraction(x)[1], AsFraction(x)[2] * k)

(* ------------------------------ helpers -------------------------------- *)

Range(s) == {s[i] : i \in 1..Len(s)}

RECURSIVE Pow10(_)
Pow10(k) == IF k = 0 THEN 1 ELSE 10 * Pow10(k - 1)

\* n/d (n >= 0) rounded to the nearest integer, ties to the even one.
RoundHalfEven(n, d) ==
    LET q == n \div d
        r == n % d
    IN  IF 2 * r < d THEN q
        ELSE IF 2 * r > d THEN q + 1
        ELSE IF q % 2 = 0 THEN q ELSE q + 1

\* Python's fixed-point rendering f"{x:.<digits>f}" of a float x >= 0, as the
\* integer x * 10^digits rounded to nearest.  A quotient the model forms is a
\* tie only when it is k + 1/2 (digits = 0, d = 10), which is a double, and
\* the rendering then rounds to the even neighbour.
FormatFixed(x, digits) == RoundHalfEven(x.n * Pow10(digits), x.d)

\* round(float(x), 3)
Round3(x) ==
    LET f == AsFraction(x)
    IN  PyFloat(RoundHalfEven(f[1] * 1000, f[2]), 1000)

\* The bytes read with the least significant byte first.
RECURSIVE from_bytes_little(_)
from_bytes_little(data) ==
    IF data = <<>> THEN 0
    ELSE data[1] + 256 * from_bytes_little(SubSeq(data, 2, Len(data)))

\* int.from_bytes(data, byteorder='big') and struct.unpack('>H', data)[0]
RECURSIVE from_bytes_big(_)
from_bytes_big(data) ==
    IF data = <<>> THEN 0
    ELSE 256 * from_bytes_big(SubSeq(data, 1, Len(data) - 1)) + data[Len(data)]

\* Python's slice data[lo:hi] (0-based, hi exclusive, clipped to the length).
Slice(data, lo, hi) ==
    SubSeq(data, lo + 1, IF hi < Len(data) THEN hi ELSE Len(data))

\* What a call ends with: a returned value or a raised exception.
Return(v) == [kind |-> "return", value |-> v, exc |-> ""]

Raise(e) == [kind |-> "raise", value |-> None, exc |-> e]

PyList(s) == [t |-> "list", v |-> s]

(* ------------------------------- base64 -------------------------------- *)

\* The index of the padding character '=' in the model's base64 alphabet.
BASE64_PAD == 64

\* binascii.a2b_base64 in its default, non-strict mode, which is what
\* base64.b64decode runs on the characters of the alphabet: a sextet is
\* appended to the bits pending, a pad ends the input once the quad holds
\* two sextets and quad_pos + pads reaches 4, and an input that ends inside
\* a quad raises binascii.Error.
RECURSIVE a2b_base64(_, _, _, _, _, _)
a2b_base64(s, i, quad_pos, pads, leftchar, out) ==
    IF i > Len(s)
        THEN IF quad_pos # 0 THEN Raise("binascii.Error") ELSE Return(PyBytes(out))
    ELSE IF s[i] = BASE64_PAD
        THEN IF quad_pos >= 2 /\ quad_pos + pads + 1 >= 4
                THEN Return(PyBytes(out))
                ELSE a2b_base64(s, i + 1, quad_pos,
                                IF quad_pos >= 2 THEN pads + 1 ELSE pads, leftchar, out)
    ELSE CASE quad_pos = 0 ->
                a2b_base64(s, i + 1, 1, 0, s[i], out)
           [] quad_pos = 1 ->
                a2b_base64(s, i + 1, 2, 0, s[i] % 16,
                           Append(out, leftchar * 4 + s[i] \div 16))
           [] quad_pos = 2 ->
                a2b_base64(s, i + 1, 3, 0, s[i] % 4,
                           Append(out, leftchar * 16 + s[i] \div 4))
           [] quad_pos = 3 ->
                a2b_base64(s, i + 1, 0, 0, 0, Append(out, leftchar * 64 + s[i]))

b64decode(s) == a2b_base64(s, 1, 0, 0, 0, <<>>)

(* --------------------------- sensor values ----------------------------- *)

\* BreakerSensorFloatValue(parent_device, parent_sensor, name, value)
BreakerSensorFloatValue(name, value) ==
    [t |-> "BreakerSensorFloatValue", name |-> name, value |-> Round3(value)]

\* BreakerSensorIntValue(parent_device, parent_sensor, name, value)
BreakerSensorIntValue(name, value) ==
    [t |-> "BreakerSensorIntValue", name |-> name, value |-> PyIntOf(value)]

\* BreakerSensorStringValue(parent_device, parent_sensor, name, value)
BreakerSensorStringValue(name, value) ==
    [t |-> "BreakerSensorStringValue", name |-> name, value |-> value]

\* BreakerAlarmValue(parent_device, parent_sensor, name, threshold, switch_alarm, unit)
BreakerAlarmValue(name, threshold, switch_alarm, unit) ==
    [t |-> "BreakerAlarmValue", name |-> name, switch_alarm |-> switch_alarm,
     unit |-> unit, threshold |-> Round3(threshold)]

\* str(s) of a sensor value, as the tuple of the parts its f-string renders:
\* the float value with three decimals, the alarm threshold with none.
Str(s) ==
    CASE s.t = "BreakerSensorFloatValue" -> <<s.name, "=", FormatFixed(s.value, 3)>>
      [] s.t = "BreakerAlarmValue" ->
            <<s.name, " threshold=", FormatFixed(s.threshold, 0), s.unit,
              ", switch_alarm=", s.switch_alarm>>
      [] OTHER -> <<s.name, "=", s.value>>

\* BreakerAlarmValue.ParseFromBytes(parent_device, parent_sensor, data)
ParseFromBytes(parent_sensor, data) ==
    LET b_type == data[1]
        switch_alarm == (data[2] = 1)
        raw2 == from_bytes_big(Slice(data, 2, 4))
        Value(name, scale, unit) ==
            Return(BreakerAlarmValue(name, PyFloat(raw2, scale), switch_alarm, unit))
    IN  IF parent_sensor.dps = "17"
            THEN CASE b_type = 4 -> Value("leakage", 1, "mA")
                   [] b_type = 5 -> Value("high_temperature", 1, "C")
                   [] OTHER      -> Raise("TypeError")
        ELSE IF parent_sensor.dps = "18"
            THEN CASE b_type = 1 -> Value("over_current", 10, "A")
                   [] b_type = 3 -> Value("overvoltage", 1, "V")
                   [] b_type = 4 -> Value("under voltage", 1, "V")
                   [] OTHER      -> Raise("TypeError")
        ELSE Raise("TypeError")

(* --------------------------- sensor groups ----------------------------- *)

\* The attributes _insert_or_update_value copies from the new value object.
CopiedAttrs == {"value", "name", "switch_alarm", "unit", "threshold"}

\* One pass of the loop body for a stored s with s.name == name:
\* s.value = value, then every copied attribute of nv.__dict__ onto s.
\* ("t" is the object's class, which is not an entry of __dict__.)
UpdateInPlace(s, nv, value) ==
    LET copied == (DOMAIN nv) \cap CopiedAttrs
    IN  [a \in (DOMAIN s) \cup {"value"} \cup copied |->
            IF a \in copied THEN nv[a]
            ELSE IF a = "value" THEN value
            ELSE s[a]]

\* An insertion that appends the new value whether or not the name is there.
insert_or_update_value_Append(sensors, name, value) ==
    [sensors |-> Append(sensors,
                        IF value.t = "float" THEN BreakerSensorFloatValue(name, value)
                        ELSE value),
     is_new |-> TRUE, changed |-> TRUE, nv |-> name]

\* BreakerSensorBase._insert_or_update_value(self, name, value) on the list
\* self.sensors: the list after the call, is_new, changed, and the stored
\* object returned, which the model names by its name.
insert_or_update_value(sensors, name, value) ==
    LET nv == CASE value.t = "float"             -> BreakerSensorFloatValue(name, value)
                [] value.t \in {"int", "bool"}   -> BreakerSensorIntValue(name, value)
                [] value.t = "BreakerAlarmValue" -> value
                [] OTHER                         -> BreakerSensorStringValue(name, value)
        found == {i \in 1..Len(sensors) : sensors[i].name = name}
        last == CHOOSE i \in found : \A j \in found : j <= i
    IN  IF found = {}
            THEN [sensors |-> Append(sensors, nv), is_new |-> TRUE,
                  changed |-> TRUE, nv |-> name]
            ELSE [sensors |-> [i \in 1..Len(sensors) |->
                                 IF i \in found THEN UpdateInPlace(sensors[i], nv, value)
                                 ELSE sensors[i]],
                  is_new |-> FALSE,
                  changed |-> (Str(sensors[last]) # Str(nv)),
                  nv |-> name]

\* isinstance(sensordata, str) / bytes at the head of both update methods:
\* the bytes to decode, or the exception raised.
SensorBytes(sensordata) ==
    IF sensordata.t = "str" THEN b64decode(sensordata.v)
    ELSE IF sensordata.t # "bytes" THEN Raise("TypeError")
    ELSE Return(sensordata)

\* The loop of BreakerAlarmSet.update from byte offset i (0-based) on: the
\* group and the changed list when the loop ends or ParseFromBytes raises.
RECURSIVE AlarmLoop(_, _, _, _)
AlarmLoop(self, sensordata, i, changed) ==
    IF i >= Len(sensordata) THEN [self |-> self, out |-> Return(PyList(changed))]
    ELSE LET nv == ParseFromBytes(self, Slice(sensordata, i, i + 4))
             r  == insert_or_update_value(self.sensors, nv.value.name, nv.value)
         IN  IF nv.kind = "raise" THEN [self |-> self, out |-> nv]
             ELSE AlarmLoop([self EXCEPT !.sensors = r.sensors], sensordata, i + 4,
                            IF r.changed THEN Append(changed, r.nv) ELSE changed)

\* An update that records the input as last_state before it checks the
\* length.
BreakerAlarmSet_update_StateFirst(self, timestamp, sensordata) ==
    LET stamped == [self EXCEPT !.timestamp = timestamp]
        data    == SensorBytes(sensordata)
        bytes   == data.value.v
    IN  IF data.kind = "raise" THEN [self |-> stamped, out |-> data]
        ELSE IF Len(bytes) < 1
            THEN [self |-> [stamped EXCEPT !.sensors = <<>>], out |-> Return(None)]
        ELSE IF Len(bytes) % 4 # 0
            THEN [self |-> [stamped EXCEPT !.last_state = bytes], out |-> Raise("TypeError")]
        ELSE AlarmLoop([stamped EXCEPT !.last_state = bytes], bytes, 0, <<>>)

\* An update that replaces the entries by those of the record.
BreakerAlarmSet_update_Replace(self, timestamp, sensordata) ==
    LET stamped == [self EXCEPT !.timestamp = timestamp]
        data    == SensorBytes(sensordata)
        bytes   == data.value.v
    IN  IF data.kind = "raise" THEN [self |-> stamped, out |-> data]
        ELSE IF Len(bytes) < 1
            THEN [self |-> [stamped EXCEPT !.sensors = <<>>], out |-> Return(None)]
        ELSE IF Len(bytes) % 4 # 0
            THEN [self |-> stamped, out |-> Raise("TypeError")]
        ELSE AlarmLoop([stamped EXCEPT !.last_state = bytes, !.sensors = <<>>],
                       bytes, 0, <<>>)

\* BreakerAlarmSet.update(self, timestamp, sensordata): the object after the
\* call and how the call ends.
BreakerAlarmSet_update(self, timestamp, sensordata) ==
    LET stamped == [self EXCEPT !.timestamp = timestamp]
        data    == SensorBytes(sensordata)
        bytes   == data.value.v
    IN  IF data.kind = "raise" THEN [self |-> stamped, out |-> data]
        ELSE IF Len(bytes) < 1
            THEN [self |-> [stamped EXCEPT !.sensors = <<>>], out |-> Return(None)]
        ELSE IF Len(bytes) % 4 # 0
            THEN [self |-> stamped, out |-> Raise("TypeError")]
        ELSE AlarmLoop([stamped EXCEPT !.last_state = bytes], bytes, 0, <<>>)

\* The three readings BreakerSensorPhase.update stores, in order, from the
\* first eight bytes: (name, raw slice, divisor).
PhaseReadings(bytes) ==
    << <<"voltage",   from_bytes_big(Slice(bytes, 0, 2)), 10>>,
       <<"current_a", from_bytes_big(Slice(bytes, 2, 5)), 1000>>,
       <<"power_kw",  from_bytes_big(Slice(bytes, 5, 8)), 1000>> >>

RECURSIVE PhaseLoop(_, _, _, _)
PhaseLoop(self, readings, k, changed) ==
    IF k > Len(readings) THEN [self |-> self, out |-> Return(PyList(changed))]
    ELSE LET r == insert_or_update_value(self.sensors, readings[k][1],
                                         PyFloat(readings[k][2], readings[k][3]))
         IN  PhaseLoop([self EXCEPT !.sensors = r.sensors], readings, k + 1,
                       IF r.changed THEN Append(changed, r.nv) ELSE changed)

\* BreakerSensorPhase.update(self, timestamp, sensordata)
BreakerSensorPhase_update(self, timestamp, sensordata) ==
    LET stamped == [self EXCEPT !.timestamp = timestamp]
        data    == SensorBytes(sensordata)
        bytes   == data.value.v
    IN  IF data.kind = "raise" THEN [self |-> stamped, out |-> data]
        ELSE IF Len(bytes) < 1
            THEN [self |-> [stamped EXCEPT !.sensors = <<>>], out |-> Return(None)]
        ELSE IF Len(bytes) % 8 # 0
            THEN [self |-> stamped, out |-> Raise("TypeError")]
        ELSE PhaseLoop([stamped EXCEPT !.last_state = bytes], PhaseReadings(bytes), 1, <<>>)

\* self.sensorlists[i].update(...): the method of the object's class.
update(self, timestamp, sensordata) ==
    IF self.t = "BreakerSensorPhase"
        THEN BreakerSensorPhase_update(self, timestamp, sensordata)
        ELSE BreakerAlarmSet_update(self, timestamp, sensordata)

(* ------------------------------ the device ----------------------------- *)

\* BreakerDevice.sensor_dps
sensor_dps == <<"6", "17", "18">>

\* The keys of BreakerDevice.dps_data, in the order the dict holds them.
dps_order == <<"1", "16", "11", "14", "13", "103", "104", "102", "107", "134">>

\* BreakerDevice.dps_data as the class body writes it.  A key a dict lacks
\* is a field the record lacks; 'decode' names the builtin it holds.
dps_data_class ==
    [k \in Range(dps_order) |->
        CASE k = "1"   -> [name |-> "total_forward_energy", scale |-> 100]
          [] k = "16"  -> [name |-> "switch", decode |-> "bool"]
          [] k = "11"  -> [name |-> "switch_prepayment", decode |-> "bool"]
          [] k = "14"  -> [name |-> "charge_energy", scale |-> 100]
          [] k = "13"  -> [name |-> "balance_energy", scale |-> 100]
          [] k = "103" -> [name |-> "temp_current", decode |-> "int"]
          [] k = "104" -> [name |-> "reclosing_enabled", decode |-> "bool"]
          [] k = "102" -> [name |-> "reclosing_allowed_times", decode |-> "int"]
          [] k = "107" -> [name |-> "reclose_recover", decode |-> "int"]
          [] k = "134" -> [name |-> "relay_power_on_status", enum |-> <<"0", "1", "2">>]]

\* 'key' in d, for a dict modelled as a record or a function.
Has(d, key) == key \in DOMAIN d

\* A marking that sets check_raw where it is not set and deletes it where
\* it is.
MarkCheckRaw_Toggle(data) ==
    [k \in DOMAIN data |->
        IF Has(data[k], "check_raw")
            THEN [a \in (DOMAIN data[k]) \ {"check_raw"} |-> data[k][a]]
        ELSE IF Has(data[k], "scale") \/ Has(data[k], "decode")
            THEN [a \in (DOMAIN data[k]) \cup {"check_raw"} |->
                    IF a = "check_raw" THEN TRUE ELSE data[k][a]]
        ELSE data[k]]

\* What the loop of __init__ leaves of the dict dps_data it is run on:
\* check_raw is set on every entry with a scale, a true base64, a
\* selfclass or a decode.
MarkCheckRaw(data) ==
    [k \in DOMAIN data |->
        LET d == data[k]
        IN  IF Has(d, "scale") \/ (Has(d, "base64") /\ Truthy(d.base64))
               \/ Has(d, "selfclass") \/ Has(d, "decode")
                THEN [a \in (DOMAIN d) \cup {"check_raw"} |->
                        IF a = "check_raw" THEN TRUE ELSE d[a]]
                ELSE d]

\* self.dps_data: no instance has a dps_data of its own, so every read and
\* every write goes to the one dict of the class.
dps_data == class_dps_data

\* The second BreakerDevice object of a program before it is constructed.
NoInstance == [constructed |-> FALSE]

\* 'raw_' + name
raw_name(name) ==
    CASE name = "total_forward_energy"    -> "raw_total_forward_energy"
      [] name = "switch"                  -> "raw_switch"
      [] name = "switch_prepayment"       -> "raw_switch_prepayment"
      [] name = "charge_energy"           -> "raw_charge_energy"
      [] name = "balance_energy"          -> "raw_balance_energy"
      [] name = "temp_current"            -> "raw_temp_current"
      [] name = "reclosing_enabled"       -> "raw_reclosing_enabled"
      [] name = "reclosing_allowed_times" -> "raw_reclosing_allowed_times"
      [] name = "reclose_recover"         -> "raw_reclose_recover"
      [] name = "relay_power_on_status"   -> "raw_relay_power_on_status"

\* ('check_raw' in dps_data[k]) and dps_data[k]['check_raw']
CheckRaw(k) == Has(dps_data[k], "check_raw") /\ dps_data[k].check_raw

\* self.high_resolution, which __init__ sets and nothing changes.
high_resolution == None

\* The attributes __init__ sets from dps_data, all None.
InitAttrs ==
    LET names == {dps_data[k].name : k \in DOMAIN dps_data}
                 \cup {dps_data[k].alt : k \in {j \in DOMAIN dps_data : Has(dps_data[j], "alt")}}
        raws  == {raw_name(dps_data[k].name) : k \in {j \in DOMAIN dps_data : CheckRaw(j)}}
    IN  [a \in names \cup raws |-> None]

\* BreakerSensorPhase(k, self) and BreakerAlarmSet(k, self) as constructed.
NewSensorList(k) ==
    [t |-> IF k = "6" THEN "BreakerSensorPhase" ELSE "BreakerAlarmSet",
     name |-> CASE k = "6" -> "phase_a" [] k = "17" -> "alarm_set_1" [] k = "18" -> "alarm_set_2",
     dps |-> k, sensors |-> <<>>, timestamp |-> 0, last_state |-> <<>>]

\* self.sensorlists after __init__: one object per entry of sensor_dps.
InitSensorLists == [i \in 1..Len(sensor_dps) |-> NewSensorList(sensor_dps[i])]

(* A dict the caller passes (data['dps'], val_dict) is the sequence of its  *)
(* <<key, value>> items in iteration order, its keys distinct.              *)

Keys(items) == {items[i][1] : i \in 1..Len(items)}

Get(items, k) == items[CHOOSE i \in 1..Len(items) : items[i][1] = k][2]

\* A store that keeps the value a key already has.
DictSet_KeepFirst(d, k, v) ==
    [x \in (DOMAIN d) \cup {k} |-> IF x \in DOMAIN d THEN d[x] ELSE v]

\* d[k] = v on a dict modelled as a function.
DictSet(d, k, v) == [x \in (DOMAIN d) \cup {k} |-> IF x = k THEN v ELSE d[x]]

\* The builtin a 'decode' entry holds, applied to val.
Decode(fn, val) == IF fn = "bool" THEN PyBool(Truthy(val)) ELSE PyIntOf(val)

(* ---------------------------- _inspect_data ---------------------------- *)

\* The first loop of _inspect_data from index i of sensor_dps on:
\* data['changed_sensors'] += self.sensorlists[i].update(t, data['dps'][k]).
\* An update that raises ends the call there; one that returns None makes
\* the += raise TypeError, after the update has acted on its object.
RECURSIVE InspectSensors(_, _, _, _, _)
RECURSIVE AddChangedSensors(_, _, _, _, _, _)
InspectSensors(lists, dps, t, i, changed_sensors) ==
    IF i > Len(sensor_dps)
        THEN [sensorlists |-> lists, changed_sensors |-> changed_sensors,
              out |-> Return(None)]
    ELSE IF sensor_dps[i] \notin Keys(dps)
        THEN InspectSensors(lists, dps, t, i + 1, changed_sensors)
    ELSE AddChangedSensors(lists, dps, t, i, changed_sensors,
                           update(lists[i], t, Get(dps, sensor_dps[i])))

\* data['changed_sensors'] += r.out, r being what update has ended with and
\* left of its object, and then the rest of the loop.
AddChangedSensors(lists, dps, t, i, changed_sensors, r) ==
    IF r.out.kind = "raise"
        THEN [sensorlists |-> [lists EXCEPT ![i] = r.self],
              changed_sensors |-> changed_sensors, out |-> r.out]
    ELSE IF r.out.value.t # "list"
        THEN [sensorlists |-> [lists EXCEPT ![i] = r.self],
              changed_sensors |-> changed_sensors, out |-> Raise("TypeError")]
    ELSE InspectSensors([lists EXCEPT ![i] = r.self], dps, t, i + 1,
                        changed_sensors \o r.out.value.v)

\* A comparison against the field's own attribute for every entry.
CheckName_NameOnly(k) == dps_data[k].name

\* The name _inspect_data compares and stores the received value under.
CheckName(k) ==
    IF CheckRaw(k) THEN raw_name(dps_data[k].name) ELSE dps_data[k].name

\* A decoding that drops a value the entry's 'enum' list lacks.
DecodeField_EnumOnly(k, val) ==
    LET d  == dps_data[k]
        v2 == IF Has(d, "decode") THEN Decode(d.decode, val) ELSE val
    IN  IF Has(d, "enum") /\ val.v \notin Range(d.enum) THEN None
        ELSE IF Has(d, "scale") THEN PyTrueDiv(v2, d.scale) ELSE v2

\* The value _inspect_data stores under the field's name: base64-decoded
\* when the entry has 'base64', then run through 'decode', then divided by
\* 'scale'.  (No entry of dps_data has 'selfclass'; that branch is not taken.)
DecodeField(k, val) ==
    LET d  == dps_data[k]
        v1 == IF Has(d, "base64") THEN b64decode(val.v).value ELSE val
        v2 == IF Has(d, "decode") THEN Decode(d.decode, v1) ELSE v1
    IN  IF Has(d, "scale") THEN PyTrueDiv(v2, d.scale) ELSE v2

\* A pass that reports a data point dps_data lacks as changed.
InspectField_ReportUnknown(st, k, val) ==
    IF ~Has(dps_data, k) THEN [st EXCEPT !.changed = Append(@, k)]
    ELSE IF PyEq(st.attrs[CheckName(k)], val) THEN st
    ELSE LET d       == dps_data[k]
             decoded == DecodeField(k, val)
             names   == <<d.name>>
                        \o (IF d.name # CheckName(k) THEN <<CheckName(k)>> ELSE <<>>)
         IN  [attrs |-> [st.attrs EXCEPT ![CheckName(k)] = val, ![d.name] = decoded],
              changed |-> st.changed \o names]

\* A pass that stores the decoded value and leaves the cached raw value.
InspectField_KeepRaw(st, k, val) ==
    IF ~Has(dps_data, k) THEN st
    ELSE IF PyEq(st.attrs[CheckName(k)], val) THEN st
    ELSE [attrs |-> [st.attrs EXCEPT ![dps_data[k].name] = DecodeField(k, val)],
          changed |-> st.changed \o <<dps_data[k].name>>
                      \o (IF dps_data[k].name # CheckName(k) THEN <<CheckName(k)>>
                          ELSE <<>>)]

\* One pass of the second loop of _inspect_data, for the item (k, val) of
\* data['dps'], on st = [attrs, changed].
InspectField(st, k, val) ==
    IF ~Has(dps_data, k) THEN st
    ELSE IF PyEq(st.attrs[CheckName(k)], val) THEN st
    ELSE LET d       == dps_data[k]
             name    == d.name
             decoded == DecodeField(k, val)
             names   == <<name>>
                        \o (IF name # CheckName(k) THEN <<CheckName(k)>> ELSE <<>>)
                        \o (IF Has(d, "alt") THEN <<d.alt>> ELSE <<>>)
             stored  == [st.attrs EXCEPT ![CheckName(k)] = val, ![name] = decoded]
         IN  [attrs |-> IF Has(d, "alt") THEN [stored EXCEPT ![d.alt] = decoded]
                        ELSE stored,
              changed |-> st.changed \o names]

RECURSIVE InspectFields(_, _, _)
InspectFields(st, dps, i) ==
    IF i > Len(dps) THEN st
    ELSE InspectFields(InspectField(st, dps[i][1], dps[i][2]), dps, i + 1)

\* What _inspect_data leaves, s being the outcome of its first loop and f
\* that of its second, which runs when the first has not raised.
InspectOutcome(at, dps, s, f) ==
    IF s.out.kind = "raise"
        THEN [attrs |-> at, sensorlists |-> s.sensorlists, out |-> s.out,
              data |-> [dps |-> dps, changed |-> <<>>,
                        changed_sensors |-> s.changed_sensors]]
        ELSE [attrs |-> f.attrs, sensorlists |-> s.sensorlists, out |-> s.out,
              data |-> [dps |-> dps, changed |-> f.changed,
                        changed_sensors |-> s.changed_sensors]]

\* BreakerDevice._inspect_data(self, data) for a data dict with a 'dps'
\* entry, t being int(data.get('t', time.time())): the attributes and the
\* sensor lists after the call, data as the call leaves it, and how it ends.
inspect_data(at, lists, dps, t) ==
    InspectOutcome(at, dps, InspectSensors(lists, dps, t, 1, <<>>),
                   InspectFields([attrs |-> at, changed |-> <<>>], dps, 1))

(* ------------------------ parseValue and setValue ---------------------- *)

\* base64.b64encode(val).decode('ascii'): three bytes to four characters,
\* the last group padded with '='.
RECURSIVE b64encode(_)
b64encode(b) ==
    IF Len(b) = 0 THEN <<>>
    ELSE IF Len(b) = 1
        THEN <<b[1] \div 4, (b[1] % 4) * 16, BASE64_PAD, BASE64_PAD>>
    ELSE IF Len(b) = 2
        THEN <<b[1] \div 4, (b[1] % 4) * 16 + b[2] \div 16, (b[2] % 16) * 4, BASE64_PAD>>
    ELSE <<b[1] \div 4, (b[1] % 4) * 16 + b[2] \div 16,
           (b[2] % 16) * 4 + b[3] \div 64, b[3] % 64>>
         \o b64encode(SubSeq(b, 4, Len(b)))

\* The scan of parseValue: the first key of dps_data, from index i on, whose
\* name or alt is `key` and whose high_resolution, if any, is the device's.
RECURSIVE FindDps(_, _)
FindDps(key, i) ==
    IF i > Len(dps_order) THEN None
    ELSE LET d == dps_data[dps_order[i]]
         IN  IF (key = d.name \/ (Has(d, "alt") /\ key = d.alt))
                /\ (~Has(d, "high_resolution") \/ d.high_resolution = high_resolution)
                THEN PyStr(dps_order[i])
                ELSE FindDps(key, i + 1)

\* An encoding that leaves out the multiplication by 'scale'.
EncodeField_NoScale(dps, val) ==
    LET d == dps_data[dps]
    IN  IF Has(d, "base64") THEN PyStr(b64encode(val.v)) ELSE val

\* val as parseValue encodes it for the entry of dps: int(val * scale), then
\* base64 text when the entry has 'base64'.  (No entry has 'encode'; an
\* 'enum' entry only logs.)  val * scale is formed for an int val only.
EncodeField(dps, val) ==
    LET d  == dps_data[dps]
        v1 == IF Has(d, "scale") THEN PyIntOf(PyInt(AsFraction(val)[1] * d.scale)) ELSE val
    IN  IF Has(d, "base64") THEN PyStr(b64encode(v1.v)) ELSE v1

\* BreakerDevice.parseValue(self, key, val): False, or the tuple (dps, val).
parseValue(key, val) ==
    LET dps == FindDps(key, 1)
    IN  IF ~Truthy(dps) THEN PyBool(FALSE)
        ELSE [t |-> "tuple", v |-> <<dps.v, EncodeField(dps.v, val)>>]

(* ------------------------------- inputs -------------------------------- *)

\* The event timestamps int(data.get('t', time.time())) takes.
Timestamps == {1}

\* 4-byte alarm entries [type, flag, hi, lo]: types 4 and 5 are known to
\* group 17, types 1, 3 and 4 to group 18, type 255 to neither.
AlarmEntries ==
    { <<4, 1, 0, 10>>, <<4, 0, 1, 44>>, <<5, 1, 0, 70>>, <<1, 0, 0, 100>>,
      <<1, 0, 0, 104>>, <<1, 1, 0, 104>>, <<3, 2, 1, 4>>, <<255, 0, 0, 0>> }

\* The entries that records of several entries are made of.
RecordEntries ==
    { <<4, 1, 0, 10>>, <<1, 0, 0, 100>>, <<1, 1, 0, 104>>, <<255, 0, 0, 0>> }

\* 8-byte phase records [voltage:2, current:3, power:3].
PhaseRecords == { <<8, 157, 0, 5, 220, 0, 1, 74>>, <<9, 96, 1, 0, 0, 0, 0, 0>> }

\* The concatenations of n entries of a set of byte strings.
RECURSIVE Concat(_, _)
Concat(S, n) ==
    IF n = 0 THEN {<<>>} ELSE {e \o r : e \in S, r \in Concat(S, n - 1)}

\* What a caller hands update for an alarm group: single entries and
\* records of up to MaxEntries entries as bytes, records as base64 text, an
\* empty input of either type, inputs of a length that is no multiple of
\* 4, and a value that is neither str nor bytes.
AlarmInputs ==
    {PyBytes(r) : r \in AlarmEntries \cup UNION {Concat(RecordEntries, n) : n \in 2..MaxEntries}}
    \cup {PyStr(b64encode(<<4, 1, 0, 10>>)), PyStr(b64encode(<<4, 1, 0, 10, 255, 0, 0, 0>>))}
    \cup {PyBytes(<<>>), PyStr(<<>>), PyBytes(<<4, 1, 0>>),
          PyStr(b64encode(<<4, 1, 0, 10, 5>>)), PyInt(0)}

\* The same for the phase group, the stride being 8.
PhaseInputs ==
    {PyBytes(r) : r \in UNION {Concat(PhaseRecords, n) : n \in 1..MaxRecords}}
    \cup {PyStr(b64encode(r)) : r \in PhaseRecords}
    \cup {PyBytes(<<>>), PyStr(<<>>), PyBytes(<<8, 157, 0>>),
          PyStr(b64encode(<<8, 157, 0, 5, 220, 0, 1, 74, 9, 96>>)), PyInt(0)}

SensorInputs(i) == IF sensor_dps[i] = "6" THEN PhaseInputs ELSE AlarmInputs

\* The items of a received payload: a scalar data point and base64 text
\* for the sensor groups, among it an empty record, a record that repeats an alert type, a record
\* with an unknown alert type and one of a length that is no multiple of 4.
PayloadItems ==
    { <<"1", PyInt(12345)>>,
      <<"6", PyStr(b64encode(<<8, 157, 0, 5, 220, 0, 1, 74>>))>>,
      <<"6", PyStr(<<>>)>>,
      <<"17", PyStr(b64encode(<<4, 1, 0, 10, 4, 0, 1, 44>>))>>,
      <<"17", PyStr(b64encode(<<5, 1, 0, 70, 255, 0, 0, 0>>))>>,
      <<"18", PyStr(b64encode(<<1, 0, 0, 100>>))>> }

\* The items of a payload of scalar data points only.
FieldItems ==
    { <<"1", PyInt(12345)>>, <<"1", PyInt(150)>>,
      <<"14", PyInt(0)>>,
      <<"16", PyBool(TRUE)>>, <<"16", PyBool(FALSE)>>,
      <<"103", PyInt(25)>>,
      <<"134", PyStr("1")>>, <<"134", PyStr("7")>>,
      <<"99", PyInt(5)>> }

\* The dicts of 1..n items with distinct keys, in every order of iteration.
RECURSIVE Dicts(_, _)
Dicts(items, n) ==
    IF n = 0 THEN {<<>>}
    ELSE LET shorter == Dicts(items, n - 1)
         IN  shorter \cup {Append(d, e) : d \in {x \in shorter : Len(x) = n - 1},
                                          e \in items}

DistinctKeys(d) == \A i, j \in 1..Len(d) : i # j => d[i][1] # d[j][1]

Payloads == {d \in Dicts(PayloadItems, MaxPayload) : d # <<>> /\ DistinctKeys(d)}

FieldPayloads == {d \in Dicts(FieldItems, MaxPayload) : d # <<>> /\ DistinctKeys(d)}

\* What the session collaborator delivers that is no payload: nothing, or
\* an error dict without 'dps'.
OtherData ==
    {None, [t |-> "dict", v |-> [Error |-> PyStr("Network Error"), Err |-> PyStr("901")]]}

\* The (key, val) pairs setValue and setValues are called with: two
\* values of a scaled field, a decoded field, and a name no entry of
\* dps_data has.
ValItems ==
    { <<"total_forward_energy", PyInt(1)>>, <<"total_forward_energy", PyInt(2)>>,
      <<"switch", PyBool(TRUE)>>, <<"no_such_field", PyInt(1)>> }

ValDicts == {d \in Dicts(ValItems, MaxDict) : DistinctKeys(d)}

\* The names of the scaled fields, and the integers and raw values the
\* round trip is run on.
ScaledNames == {dps_data[k].name : k \in {j \in DOMAIN dps_data : Has(dps_data[j], "scale")}}

RoundTripValues == 0..MaxRoundTrip

RawValues == {12345, -150}

(* ------------------------------- actions ------------------------------- *)

\* The state __init__ leaves.
Init ==
    /\ class_dps_data = MarkCheckRaw(dps_data_class)
    /\ other = NoInstance
    /\ attrs = InitAttrs
    /\ sensorlists = InitSensorLists
    /\ delay_updates = FALSE
    /\ delayed_updates = <<>>
    /\ sent = <<>>
    /\ result = [op |-> "__init__", args |-> <<>>, out |-> Return(None)]

\* The device once _inspect_data has ended with r on the payload dps.
Inspected(dps, r) ==
    /\ attrs' = r.attrs
    /\ sensorlists' = r.sensorlists
    /\ result' = [op |-> "_inspect_data",
                  args |-> <<[t |-> "dict", v |-> [dps |-> dps]]>>,
                  out |-> r.out, data |-> r.data]
    /\ UNCHANGED <<delay_updates, delayed_updates, sent, class_dps_data, other>>

\* receive() or status() handing _inspect_data a payload.
Receive(dps, t) == Inspected(dps, inspect_data(attrs, sensorlists, dps, t))

\* _inspect_data on data that is falsy or has no 'dps': returned as it is.
ReceiveOther(data) ==
    /\ IF Truthy(data) THEN ~Has(data.v, "dps") ELSE TRUE
    /\ result' = [op |-> "_inspect_data", args |-> <<data>>, out |-> Return(data),
                  data |-> data]
    /\ UNCHANGED <<attrs, sensorlists, delay_updates, delayed_updates, sent,
                   class_dps_data, other>>

\* A direct call self.sensorlists[i].update(t, sensordata).  A behaviour
\* exercises one sensor list object: the others are as constructed.
Update(i, t, sensordata) ==
    LET r == update(sensorlists[i], t, sensordata)
    IN  /\ \A j \in 1..Len(sensorlists) : j # i => sensorlists[j] = InitSensorLists[j]
        /\ sensorlists' = [sensorlists EXCEPT ![i] = r.self]
        /\ result' = [op |-> "update", args |-> <<i, sensordata>>, out |-> r.out]
        /\ UNCHANGED <<attrs, delay_updates, delayed_updates, sent,
                       class_dps_data, other>>

\* What the session collaborator's set_value and send return.
SessionResult == [t |-> "session"]

\* BreakerDevice.setValue(self, key, val).  Unpacking parseValue's False
\* into dps, val raises TypeError.
SetValue(key, val) ==
    LET pv == parseValue(key, val)
    IN  /\ result' = [op |-> "setValue", args |-> <<key, val>>,
                      out |-> IF pv.t # "tuple" THEN Raise("TypeError")
                              ELSE IF ~delay_updates THEN Return(SessionResult)
                              ELSE Return(PyBool(TRUE))]
        /\ IF pv.t # "tuple" THEN UNCHANGED <<delayed_updates, sent>>
           ELSE IF ~delay_updates
                THEN /\ Len(sent) < MaxSent
                     /\ sent' = Append(sent, DictSet(<<>>, pv.v[1], pv.v[2]))
                     /\ UNCHANGED delayed_updates
                ELSE /\ delayed_updates' = DictSet(delayed_updates, pv.v[1], pv.v[2])
                     /\ UNCHANGED sent
        /\ UNCHANGED <<attrs, sensorlists, delay_updates, class_dps_data, other>>

\* The loop of setValues from item i on: self.delayed_updates when the
\* loop ends or the unpacking of parseValue's False raises.
RECURSIVE SetValuesLoop(_, _, _)
SetValuesLoop(updates, val_dict, i) ==
    IF i > Len(val_dict) THEN [delayed_updates |-> updates, out |-> Return(None)]
    ELSE LET pv == parseValue(val_dict[i][1], val_dict[i][2])
         IN  IF pv.t # "tuple"
                THEN [delayed_updates |-> updates, out |-> Raise("TypeError")]
                ELSE SetValuesLoop(DictSet(updates, pv.v[1], pv.v[2]), val_dict, i + 1)

\* BreakerDevice.setValues(self, val_dict)
SetValues(val_dict) ==
    LET r == SetValuesLoop(delayed_updates, val_dict, 1)
    IN  /\ result' = [op |-> "setValues", args |-> <<val_dict>>,
                      out |-> IF r.out.kind = "raise" THEN r.out
                              ELSE IF ~delay_updates THEN Return(SessionResult)
                              ELSE Return(PyBool(TRUE))]
        /\ IF r.out.kind = "raise" \/ delay_updates
                THEN /\ delayed_updates' = r.delayed_updates
                     /\ UNCHANGED sent
                ELSE /\ Len(sent) < MaxSent
                     /\ sent' = Append(sent, r.delayed_updates)
                     /\ delayed_updates' = <<>>
        /\ UNCHANGED <<attrs, sensorlists, delay_updates, class_dps_data, other>>

\* A call parseValue(key, v) whose result the caller keeps.
RoundTripEncode(key, v) ==
    /\ result' = [op |-> "parseValue", args |-> <<key, v>>,
                  out |-> Return(parseValue(key, v))]
    /\ UNCHANGED <<attrs, sensorlists, delay_updates, delayed_updates, sent,
                   class_dps_data, other>>

\* The device reporting back the data point parseValue has just encoded.
RoundTripDecode(t) ==
    /\ result.op = "parseValue"
    /\ result.out.value.t = "tuple"
    /\ Receive(<< <<result.out.value.v[1], result.out.value.v[2]>> >>, t)

Next ==
    \/ \E dps \in Payloads, t \in Timestamps : Receive(dps, t)
    \/ \E data \in OtherData : ReceiveOther(data)

\* A device that receives payloads of every kind.
Spec == Init /\ [][Next]_vars

NextFields ==
    \/ \E dps \in FieldPayloads, t \in Timestamps : Receive(dps, t)
    \/ \E data \in OtherData : ReceiveOther(data)

\* A device that receives payloads of scalar data points.
SpecFields == Init /\ [][NextFields]_vars

NextUpdate ==
    \E i \in 1..Len(sensor_dps), t \in Timestamps :
        \E sensordata \in SensorInputs(i) : Update(i, t, sensordata)

\* Direct calls of the sensor lists' update.
SpecUpdate == Init /\ [][NextUpdate]_vars

\* __init__ sets delay_updates to False; a caller that wants deferred
\* updates sets the attribute on the new object.
InitOut ==
    /\ class_dps_data = MarkCheckRaw(dps_data_class)
    /\ other = NoInstance
    /\ attrs = InitAttrs
    /\ sensorlists = InitSensorLists
    /\ delay_updates \in BOOLEAN
    /\ delayed_updates = <<>>
    /\ sent = <<>>
    /\ result = [op |-> "__init__", args |-> <<>>, out |-> Return(None)]

NextOut ==
    \/ \E item \in ValItems : SetValue(item[1], item[2])
    \/ \E val_dict \in ValDicts : SetValues(val_dict)

\* A device asked to set values, in immediate or in deferred mode.
SpecOut == InitOut /\ [][NextOut]_vars

NextRT ==
    \/ \E key \in ScaledNames, v \in RoundTripValues : RoundTripEncode(key, PyInt(v))
    \/ \E t \in Timestamps : RoundTripDecode(t)
    \/ \E k \in {j \in DOMAIN dps_data : Has(dps_data[j], "scale")},
          raw \in RawValues, t \in Timestamps : Receive(<< <<k, PyInt(raw)>> >>, t)

\* Scaled fields encoded by parseValue and decoded by _inspect_data.
SpecRT == Init /\ [][NextRT]_vars

(* ---------------------------- two instances --------------------------- *)

\* The payloads and the (key, val) pairs two devices of one program are
\* given.
TwoPayloads ==
    { << <<"1", PyInt(12345)>> >>,
      << <<"18", PyStr(b64encode(<<1, 0, 0, 100>>))>> >> }

TwoValItems ==
    { <<"total_forward_energy", PyInt(1)>>, <<"switch", PyBool(TRUE)>>,
      <<"no_such_field", PyInt(1)>> }

\* The first object exists once __init__ has given it attributes.
Constructed == DOMAIN attrs # {}

\* BreakerDevice(...): __init__ on a new first object.  The loop over
\* self.dps_data writes check_raw into the dict of the class.
Construct ==
    /\ class_dps_data' = MarkCheckRaw(class_dps_data)
    /\ attrs' = InitAttrs'
    /\ sensorlists' = InitSensorLists
    /\ delay_updates' = FALSE
    /\ delayed_updates' = <<>>
    /\ sent' = <<>>
    /\ result' = [op |-> "__init__", args |-> <<>>, out |-> Return(None)]
    /\ UNCHANGED other

\* BreakerDevice(...) for the second object, whose delay_updates the caller
\* then sets.
Other_init(delay) ==
    /\ class_dps_data' = MarkCheckRaw(class_dps_data)
    /\ other' = [constructed |-> TRUE, attrs |-> InitAttrs',
                 sensorlists |-> InitSensorLists, delay_updates |-> delay,
                 delayed_updates |-> <<>>]
    /\ result' = [op |-> "other.__init__", args |-> <<delay>>, out |-> Return(None)]
    /\ UNCHANGED <<attrs, sensorlists, delay_updates, delayed_updates, sent>>

\* The second object once its _inspect_data has ended with r.
Other_inspected(dps, r) ==
    /\ other' = [other EXCEPT !.attrs = r.attrs, !.sensorlists = r.sensorlists]
    /\ result' = [op |-> "other._inspect_data", args |-> <<dps>>, out |-> r.out]
    /\ UNCHANGED <<attrs, sensorlists, delay_updates, delayed_updates, sent,
                   class_dps_data>>

\* _inspect_data of the second object on a payload.
Other_inspect_data(dps, t) ==
    /\ other.constructed
    /\ Other_inspected(dps, inspect_data(other.attrs, other.sensorlists, dps, t))

\* The second object once its setValue has got pv from parseValue.
Other_valueSet(key, val, pv) ==
    /\ other' = IF pv.t = "tuple" /\ other.delay_updates
                    THEN [other EXCEPT !.delayed_updates = DictSet(@, pv.v[1], pv.v[2])]
                    ELSE other
    /\ result' = [op |-> "other.setValue", args |-> <<key, val>>,
                  out |-> IF pv.t # "tuple" THEN Raise("TypeError")
                          ELSE IF ~other.delay_updates THEN Return(SessionResult)
                          ELSE Return(PyBool(TRUE))]
    /\ UNCHANGED <<attrs, sensorlists, delay_updates, delayed_updates, sent,
                   class_dps_data>>

\* setValue of the second object.
Other_setValue(key, val) ==
    /\ other.constructed
    /\ Other_valueSet(key, val, parseValue(key, val))

\* The program before it constructs a BreakerDevice: the class holds
\* dps_data as its body writes it, and neither object exists.
InitTwo ==
    /\ class_dps_data = dps_data_class
    /\ other = NoInstance
    /\ attrs = <<>>
    /\ sensorlists = <<>>
    /\ delay_updates = FALSE
    /\ delayed_updates = <<>>
    /\ sent = <<>>
    /\ result = [op |-> "import", args |-> <<>>, out |-> Return(None)]

NextTwo ==
    \/ Construct
    \/ \E delay \in BOOLEAN : Other_init(delay)
    \/ Constructed /\ \E dps \in TwoPayloads, t \in Timestamps : Receive(dps, t)
    \/ Constructed /\ \E item \in TwoValItems : SetValue(item[1], item[2])
    \/ \E dps \in TwoPayloads, t \in Timestamps : Other_inspect_data(dps, t)
    \/ \E item \in TwoValItems : Other_setValue(item[1], item[2])

\* A program with two BreakerDevice objects.
SpecTwo == InitTwo /\ [][NextTwo]_vars

(* ------------------------------- claims -------------------------------- *)

\* The call r records is _inspect_data on a data dict with a 'dps' entry.
IsPayloadCall(r) ==
    r.op = "_inspect_data" /\ r.args[1].t = "dict" /\ Has(r.args[1].v, "dps")

PayloadOf(r) == r.args[1].v.dps

Returned(r) == r.out.kind = "return"

Raised(r) == r.out.kind = "raise"

\* The index in sensorlists of the sensor group with data point k.
GroupIndex(k) == CHOOSE i \in 1..Len(sensor_dps) : sensor_dps[i] = k

\* The fields of dps_data that cache the raw value: those with a scale or
\* a decode rule.
TracksRaw(k) == k \in {"1", "16", "11", "14", "13", "103", "104", "102", "107"}

\* C1: applying a payload that _inspect_data accepts and then the identical
\* payload again returns empty 'changed' and 'changed_sensors' lists the
\* second time.
C1_SecondApplyChangesNothing ==
    [][(/\ IsPayloadCall(result) /\ Returned(result)
        /\ IsPayloadCall(result') /\ Returned(result')
        /\ PayloadOf(result') = PayloadOf(result))
       => (/\ result'.data.changed = <<>>
           /\ result'.data.changed_sensors = <<>>)]_vars

\* The step is _inspect_data on a payload whose only item is the known
\* scalar field k with a value that differs from the stored comparison key.
ScalarChangeStep(k) ==
    /\ IsPayloadCall(result')
    /\ Len(PayloadOf(result')) = 1
    /\ PayloadOf(result')[1][1] = k
    /\ ~PyEq(attrs[IF TracksRaw(k) THEN raw_name(dps_data_class[k].name)
                   ELSE dps_data_class[k].name],
             PayloadOf(result')[1][2])

\* The value a scalar field holds is the decode of val: val / 100 for the
\* scaled fields, bool(val) and int(val) for the decoded ones, val itself
\* for the enum field.
IsDecodeOf(k, stored, val) ==
    CASE k \in {"1", "14", "13"} ->
            stored.t = "float" /\ stored.n * 100 = AsFraction(val)[1] * stored.d
      [] k \in {"16", "11", "104"} -> stored = [t |-> "bool", v |-> Truthy(val)]
      [] k \in {"103", "102", "107"} -> stored = [t |-> "int", v |-> AsFraction(val)[1]]
      [] OTHER -> stored = val

\* C2 as stated: a payload whose only item is a scalar field with a new
\* comparison key yields changed == [name] and nothing else; {"1": 12345} on
\* a fresh device yields changed == ["total_forward_energy"].
C2_ChangedIsTheNameOnly ==
    [][\A k \in DOMAIN dps_data_class :
        ScalarChangeStep(k) => result'.data.changed = <<dps_data_class[k].name>>]_vars

\* C2 as amended: such a payload yields changed == [name], followed by
\* 'raw_' + name when the field caches its raw value, and stores the decoded
\* value; {"1": 12345} on a fresh device yields changed ==
\* ["total_forward_energy", "raw_total_forward_energy"] and the value 123.45.
C2_ChangedIsNameThenRawName ==
    [][/\ \A k \in DOMAIN dps_data_class :
            ScalarChangeStep(k) =>
                /\ Returned(result')
                /\ result'.data.changed =
                       <<dps_data_class[k].name>>
                       \o (IF TracksRaw(k) THEN <<raw_name(dps_data_class[k].name)>>
                           ELSE <<>>)
                /\ IsDecodeOf(k, attrs'[dps_data_class[k].name], PayloadOf(result')[1][2])
       /\ (/\ attrs = InitAttrs
           /\ IsPayloadCall(result')
           /\ PayloadOf(result') = << <<"1", PyInt(12345)>> >>)
          => /\ result'.data.changed = <<"total_forward_energy", "raw_total_forward_energy">>
             /\ attrs'["total_forward_energy"] = [t |-> "float", n |-> 2469, d |-> 20]]_vars

\* C2's case: {"1": 12345} has been applied, both names are reported and
\* 123.45 is stored.
C2_Witness ==
    /\ IsPayloadCall(result)
    /\ PayloadOf(result) = << <<"1", PyInt(12345)>> >>
    /\ result.data.changed = <<"total_forward_energy", "raw_total_forward_energy">>
    /\ attrs["total_forward_energy"] = [t |-> "float", n |-> 2469, d |-> 20]

\* The bytes an update input carries: the bytes themselves, or the decoded
\* base64 text.
InputBytes(sensordata) ==
    IF sensordata.t = "bytes" THEN sensordata.v ELSE b64decode(sensordata.v).value.v

IsBinary(sensordata) ==
    \/ sensordata.t = "bytes"
    \/ sensordata.t = "str" /\ b64decode(sensordata.v).kind = "return"

\* The alert-type codes each alarm group knows.
KnownTypes(k) == IF k = "17" THEN {4, 5} ELSE {1, 3, 4}

\* A well-sized alarm record with an entry of an unknown alert type.
HasUnknownType(k, bytes) ==
    /\ Len(bytes) > 0
    /\ Len(bytes) % 4 = 0
    /\ \E e \in 0..(Len(bytes) \div 4 - 1) : bytes[4 * e + 1] \notin KnownTypes(k)

\* The step is the direct call sensorlists[i].update(t, sensordata).
UpdateStep(i) == result'.op = "update" /\ result'.args[1] = i

\* What a claim about a group's entries compares: each entry's name,
\* value or threshold, enabled flag and unit, in order.
EntryView(s) ==
    IF s.t = "BreakerAlarmValue"
        THEN <<s.name, s.threshold, s.switch_alarm, s.unit>>
        ELSE <<s.name, s.value>>

EntriesView(sensors) == [j \in 1..Len(sensors) |-> EntryView(sensors[j])]

\* C3: update of an alarm group on a record with an unknown alert type in
\* any entry raises and leaves the group's entries as they were.
C3_UnknownTypeLeavesEntries ==
    [][\A i \in {2, 3} :
        (/\ UpdateStep(i)
         /\ IsBinary(result'.args[2])
         /\ HasUnknownType(sensor_dps[i], InputBytes(result'.args[2])))
        => (/\ Raised(result')
            /\ EntriesView(sensorlists'[i].sensors) = EntriesView(sensorlists[i].sensors))]_vars

\* C4: _inspect_data of a payload whose only item is an empty record for a
\* sensor group returns, with changed_sensors empty and the group cleared.
C4_EmptyRecordReturnsNoChanges ==
    (/\ IsPayloadCall(result)
     /\ Len(PayloadOf(result)) = 1
     /\ PayloadOf(result)[1][1] \in Range(sensor_dps)
     /\ Len(PayloadOf(result)[1][2].v) = 0)
    => (/\ Returned(result)
        /\ result.data.changed_sensors = <<>>
        /\ sensorlists[GroupIndex(PayloadOf(result)[1][1])].sensors = <<>>)

\* The record size of each sensor group.
Stride(i) == IF sensor_dps[i] = "6" THEN 8 ELSE 4

\* C5: update on a non-empty input whose length is no multiple of the
\* group's record size (8 for the phase group, 4 for the alarm groups)
\* raises and leaves the entries and the last accepted record unchanged.
C5_BadLengthLeavesGroup ==
    [][\A i \in 1..Len(sensor_dps) :
        (/\ UpdateStep(i)
         /\ IsBinary(result'.args[2])
         /\ Len(InputBytes(result'.args[2])) > 0
         /\ Len(InputBytes(result'.args[2])) % Stride(i) # 0)
        => (/\ Raised(result')
            /\ result'.out.exc = "TypeError"
            /\ sensorlists'[i].sensors = sensorlists[i].sensors
            /\ sensorlists'[i].last_state = sensorlists[i].last_state)]_vars

\* C5's case: an alarm group that holds entries has rejected a 3-byte input.
C5_Witness ==
    /\ result.op = "update"
    /\ result.args = <<2, PyBytes(<<4, 1, 0>>)>>
    /\ Raised(result)
    /\ sensorlists[2].sensors # <<>>
    /\ sensorlists[2].last_state # <<>>

\* The names of the entries of dps_data.
FieldNames ==
    {"total_forward_energy", "switch", "switch_prepayment", "charge_energy",
     "balance_energy", "temp_current", "reclosing_enabled",
     "reclosing_allowed_times", "reclose_recover", "relay_power_on_status"}

\* C6: in immediate and in deferred mode, setValue with a name no entry of
\* dps_data has, and setValues with such a name at any position of
\* val_dict, leave delayed_updates as it was before the call.
C6_UnresolvableLeavesBuffer ==
    [][(\/ /\ result'.op = "setValue"
           /\ result'.args[1] \notin FieldNames
        \/ /\ result'.op = "setValues"
           /\ \E j \in 1..Len(result'.args[1]) : result'.args[1][j][1] \notin FieldNames)
       => delayed_updates' = delayed_updates]_vars

\* C7: setValue with a name no entry of dps_data has returns a failure
\* result to its caller, raises nothing, and sends nothing to the session.
C7_UnknownKeyReturnsFailure ==
    [][(/\ result'.op = "setValue"
        /\ result'.args[1] \notin FieldNames)
       => (/\ Returned(result')
           /\ ~Truthy(result'.out.value)
           /\ sent' = sent)]_vars

\* The table of alert types: name, unit and scale per group and type code.
AlarmTable(k, type) ==
    IF k = "17"
        THEN CASE type = 4 -> [name |-> "leakage", unit |-> "mA", scale |-> 1]
               [] type = 5 -> [name |-> "high_temperature", unit |-> "C", scale |-> 1]
        ELSE CASE type = 1 -> [name |-> "over_current", unit |-> "A", scale |-> 10]
               [] type = 3 -> [name |-> "overvoltage", unit |-> "V", scale |-> 1]
               [] type = 4 -> [name |-> "under voltage", unit |-> "V", scale |-> 1]

\* The 4-byte entry e (0-based) of an alarm record.
Entry(bytes, e) == SubSeq(bytes, 4 * e + 1, 4 * e + 4)

\* s is what the entry [type, flag, hi, lo] of group k decodes to.
DecodesEntry(k, s, entry) ==
    /\ s.name = AlarmTable(k, entry[1]).name
    /\ s.unit = AlarmTable(k, entry[1]).unit
    /\ s.threshold.t = "float"
    /\ s.threshold.n * AlarmTable(k, entry[1]).scale
         = (256 * entry[3] + entry[4]) * s.threshold.d
    /\ s.switch_alarm = (entry[2] = 1)

\* C8: update of an alarm group on a record whose entries [type, flag, hi,
\* lo] all have known types returns, and for every entry that is the last
\* of its type in the record the group holds one value with the table's
\* name and unit, threshold (256*hi + lo) / scale and switch_alarm true
\* exactly when flag is 1; [04 01 00 0A] in group 17 gives leakage, 10.0, mA,
\* true and [01 00 00 64] in group 18 gives over_current, 10.0, A, false.
C8_AlarmEntryDecoding ==
    [][/\ \A i \in {2, 3} :
            (/\ UpdateStep(i)
             /\ IsBinary(result'.args[2])
             /\ Len(InputBytes(result'.args[2])) > 0
             /\ Len(InputBytes(result'.args[2])) % 4 = 0
             /\ ~HasUnknownType(sensor_dps[i], InputBytes(result'.args[2])))
            => LET bytes == InputBytes(result'.args[2])
                   n     == Len(bytes) \div 4
               IN  /\ Returned(result')
                   /\ \A e \in 0..(n - 1) :
                        (\A f \in (e + 1)..(n - 1) : bytes[4 * f + 1] # bytes[4 * e + 1])
                        => /\ Cardinality({j \in 1..Len(sensorlists'[i].sensors) :
                                  sensorlists'[i].sensors[j].name
                                     = AlarmTable(sensor_dps[i], bytes[4 * e + 1]).name}) = 1
                           /\ \E j \in 1..Len(sensorlists'[i].sensors) :
                                DecodesEntry(sensor_dps[i], sensorlists'[i].sensors[j],
                                             Entry(bytes, e))
       /\ (UpdateStep(2) /\ result'.args[2] = PyBytes(<<4, 1, 0, 10>>))
          => \E j \in 1..Len(sensorlists'[2].sensors) :
                EntryView(sensorlists'[2].sensors[j])
                   = <<"leakage", [t |-> "float", n |-> 10, d |-> 1], TRUE, "mA">>
       /\ (UpdateStep(3) /\ result'.args[2] = PyBytes(<<1, 0, 0, 100>>))
          => \E j \in 1..Len(sensorlists'[3].sensors) :
                EntryView(sensorlists'[3].sensors[j])
                   = <<"over_current", [t |-> "float", n |-> 10, d |-> 1], FALSE, "A">>]_vars

\* C8's case: group 17 has decoded [04 00 01 2C] over an earlier leakage
\* entry and holds leakage, 300.0, mA, false.
C8_Witness ==
    /\ result.op = "update"
    /\ result.args = <<2, PyBytes(<<4, 0, 1, 44>>)>>
    /\ Returned(result)
    /\ sensorlists[2].last_state = <<4, 0, 1, 44>>
    /\ Len(sensorlists[2].sensors) = 2
    /\ \E j \in 1..2 :
          EntryView(sensorlists[2].sensors[j])
             = <<"leakage", [t |-> "float", n |-> 300, d |-> 1], FALSE, "mA">>

\* The group holds a value called name that equals raw / divisor.
HoldsReading(sensors, name, raw, divisor) ==
    \E j \in 1..Len(sensors) :
        /\ sensors[j].name = name
        /\ sensors[j].value.t = "float"
        /\ sensors[j].value.n * divisor = raw * sensors[j].value.d

\* C9: update of the phase group on an input of 8-byte records returns, and
\* the group then holds voltage, current_a and power_kw with the values of
\* the input's records, those of the last record of a 16-byte input
\* included: bytes 0-1 / 10, bytes 2-4 / 1000 and bytes 5-7 / 1000, each read
\* big-endian.
C9_EveryPhaseRecordDecoded ==
    [][(/\ UpdateStep(1)
        /\ IsBinary(result'.args[2])
        /\ Len(InputBytes(result'.args[2])) > 0
        /\ Len(InputBytes(result'.args[2])) % 8 = 0)
       => LET bytes == InputBytes(result'.args[2])
              o     == Len(bytes) - 8
              s     == sensorlists'[1].sensors
          IN  /\ Returned(result')
              /\ HoldsReading(s, "voltage", 256 * bytes[o + 1] + bytes[o + 2], 10)
              /\ HoldsReading(s, "current_a",
                     65536 * bytes[o + 3] + 256 * bytes[o + 4] + bytes[o + 5], 1000)
              /\ HoldsReading(s, "power_kw",
                     65536 * bytes[o + 6] + 256 * bytes[o + 7] + bytes[o + 8], 1000)]_vars

\* The data point of each scaled field.
ScaledId(key) ==
    CASE key = "total_forward_energy" -> "1"
      [] key = "charge_energy"        -> "14"
      [] key = "balance_energy"       -> "13"

ScaledKeys == {"total_forward_energy", "charge_energy", "balance_energy"}

ScaledNameOf(k) == CHOOSE key \in ScaledKeys : ScaledId(key) = k

\* C10: for a scaled field and an integer v, parseValue gives (id, v * 100),
\* and _inspect_data of the payload {id: v * 100} stores the value v; and
\* _inspect_data of {id: raw} stores raw / 100 for every integer raw.
C10_ScaledRoundTrip ==
    [][/\ (/\ result'.op = "parseValue"
           /\ result'.args[1] \in ScaledKeys)
          => result'.out = Return([t |-> "tuple",
                                   v |-> <<ScaledId(result'.args[1]),
                                           PyInt(result'.args[2].v * 100)>>])
       /\ (/\ result.op = "parseValue"
           /\ result.args[1] \in ScaledKeys
           /\ IsPayloadCall(result')
           /\ PayloadOf(result')
                = << <<ScaledId(result.args[1]), PyInt(result.args[2].v * 100)>> >>)
          => /\ Returned(result')
             /\ attrs'[result.args[1]] = [t |-> "float", n |-> result.args[2].v, d |-> 1]
             /\ PyEq(attrs'[result.args[1]], result.args[2])
       /\ (/\ IsPayloadCall(result')
           /\ Len(PayloadOf(result')) = 1
           /\ PayloadOf(result')[1][1] \in {"1", "14", "13"})
          => LET stored == attrs'[ScaledNameOf(PayloadOf(result')[1][1])]
             IN  /\ Returned(result')
                 /\ stored.t = "float"
                 /\ stored.n * 100 = PayloadOf(result')[1][2].v * stored.d]_vars

\* C10's case: charge_energy 3 has been encoded as ("14", 300) and the
\* payload {"14": 300} has been decoded to 3.0.
C10_Witness ==
    /\ IsPayloadCall(result)
    /\ PayloadOf(result) = << <<"14", PyInt(300)>> >>
    /\ result.data.changed = <<"charge_energy", "raw_charge_energy">>
    /\ attrs["charge_energy"] = [t |-> "float", n |-> 3, d |-> 1]
    /\ attrs["raw_charge_energy"] = PyInt(300)

\* The names of a group's entries, in order.
NamesOf(sensors) == [j \in 1..Len(sensors) |-> sensors[j].name]

UniqueNames(sensors) ==
    \A j, l \in 1..Len(sensors) : sensors[j].name = sensors[l].name => j = l

\* The names the records of a well-formed input for group i carry.
RecordNames(i, bytes) ==
    IF sensor_dps[i] = "6" THEN {"voltage", "current_a", "power_kw"}
    ELSE {AlarmTable(sensor_dps[i], bytes[4 * e + 1]).name :
             e \in 0..(Len(bytes) \div 4 - 1)}

\* A non-empty input of whole records, every alert type known to the group.
WellFormed(i, sensordata) ==
    /\ IsBinary(sensordata)
    /\ Len(InputBytes(sensordata)) > 0
    /\ Len(InputBytes(sensordata)) % Stride(i) = 0
    /\ sensor_dps[i] # "6" => ~HasUnknownType(sensor_dps[i], InputBytes(sensordata))

\* C11: whatever update calls a sensor group has seen, no two of its
\* entries have the same name; and an update whose names are all present
\* already leaves the number and the order of the entries as they were.
C11_NamesUnique ==
    /\ [](\A i \in 1..Len(sensor_dps) : UniqueNames(sensorlists[i].sensors))
    /\ [][\A i \in 1..Len(sensor_dps) :
            (/\ UpdateStep(i)
             /\ WellFormed(i, result'.args[2])
             /\ RecordNames(i, InputBytes(result'.args[2]))
                   \subseteq Range(NamesOf(sensorlists[i].sensors)))
            => /\ Returned(result')
               /\ NamesOf(sensorlists'[i].sensors) = NamesOf(sensorlists[i].sensors)]_vars

\* C11's case: group 18, holding over_current and another entry, has taken
\* a new over_current threshold in place.
C11_Witness ==
    /\ result.op = "update"
    /\ result.args = <<3, PyBytes(<<1, 1, 0, 104>>)>>
    /\ Returned(result)
    /\ Len(sensorlists[3].sensors) = 2
    /\ sensorlists[3].sensors[1].name = "over_current"
    /\ sensorlists[3].sensors[1].threshold = [t |-> "float", n |-> 52, d |-> 5]
    /\ sensorlists[3].sensors[2].name # "over_current"

\* The data point each field name resolves to.
FieldId(key) ==
    CASE key = "total_forward_energy"    -> "1"
      [] key = "switch"                  -> "16"
      [] key = "switch_prepayment"       -> "11"
      [] key = "charge_energy"           -> "14"
      [] key = "balance_energy"          -> "13"
      [] key = "temp_current"            -> "103"
      [] key = "reclosing_enabled"       -> "104"
      [] key = "reclosing_allowed_times" -> "102"
      [] key = "reclose_recover"         -> "107"
      [] key = "relay_power_on_status"   -> "134"

\* The value sent for a field: val * 100 for the scaled fields, val itself
\* for the others.
Encoded(key, val) == IF key \in ScaledKeys THEN PyInt(val.v * 100) ELSE val

\* The (key, val) entries of a setValue or setValues call.
CallEntries(r) == IF r.op = "setValue" THEN <<r.args>> ELSE r.args[1]

IsSetCall(r) == r.op \in {"setValue", "setValues"}

\* The payload the entries of a call make: their ids, each with the
\* encoded value of the entry.
IsPayloadOfCall(payload, entries) ==
    /\ DOMAIN payload = {FieldId(entries[j][1]) : j \in 1..Len(entries)}
    /\ \A j \in 1..Len(entries) :
          payload[FieldId(entries[j][1])] = Encoded(entries[j][1], entries[j][2])

\* C12: with delay_updates set, a setValue or setValues call that succeeds
\* returns True, sends nothing, and leaves delayed_updates the merge of
\* what it held with the call's entries: the ids of the call map to the
\* values the call encoded, every other id keeps its value.
C12_DeferredCallsMerge ==
    [][(/\ delay_updates
        /\ IsSetCall(result')
        /\ Returned(result'))
       => LET entries == CallEntries(result')
              ids     == {FieldId(entries[j][1]) : j \in 1..Len(entries)}
          IN  /\ result'.out.value = PyBool(TRUE)
              /\ sent' = sent
              /\ DOMAIN delayed_updates' = (DOMAIN delayed_updates) \cup ids
              /\ \A j \in 1..Len(entries) :
                    delayed_updates'[FieldId(entries[j][1])]
                       = Encoded(entries[j][1], entries[j][2])
              /\ \A id \in (DOMAIN delayed_updates) \ ids :
                    delayed_updates'[id] = delayed_updates[id]]_vars

\* C12's case: in deferred mode the buffer holds the latest value encoded
\* for id 1 beside the one for id 16, and nothing has been sent.
C12_Witness ==
    /\ delay_updates
    /\ result.op = "setValue"
    /\ result.args = <<"total_forward_energy", PyInt(2)>>
    /\ Returned(result)
    /\ DOMAIN delayed_updates = {"1", "16"}
    /\ delayed_updates["1"] = PyInt(200)
    /\ delayed_updates["16"] = PyBool(TRUE)
    /\ sent = <<>>

\* The data points the device knows: the sensor groups and the fields.
KnownIds ==
    {"6", "17", "18", "1", "16", "11", "14", "13", "103", "104", "102", "107", "134"}

KnownItem(item) == item[1] \in KnownIds

\* C13: _inspect_data of a payload whose data points are all unknown to
\* the device returns, leaves every attribute and every sensor group as
\* it was, reports no change and leaves the payload's entries untouched;
\* and a payload with such data points among known ones changes and
\* reports what the payload of its known data points alone does.
C13_UnknownIdsPassThrough ==
    [][IsPayloadCall(result')
       => LET payload == PayloadOf(result')
              known   == SelectSeq(payload, KnownItem)
              alone   == inspect_data(attrs, sensorlists, known, 1)
          IN  /\ result'.data.dps = payload
              /\ known = <<>>
                 => /\ Returned(result')
                    /\ attrs' = attrs
                    /\ sensorlists' = sensorlists
                    /\ result'.data.changed = <<>>
                    /\ result'.data.changed_sensors = <<>>
              /\ result'.out = alone.out
              /\ attrs' = alone.attrs
              /\ sensorlists' = alone.sensorlists
              /\ result'.data.changed = alone.data.changed
              /\ result'.data.changed_sensors = alone.data.changed_sensors]_vars

\* C13's case: a payload with the unknown data point 99 before data point
\* 1 has been applied; the field is reported, 99 is not, and the payload
\* is as it was given.
C13_Witness ==
    /\ IsPayloadCall(result)
    /\ PayloadOf(result) = << <<"99", PyInt(5)>>, <<"1", PyInt(12345)>> >>
    /\ Returned(result)
    /\ result.data.dps = << <<"99", PyInt(5)>>, <<"1", PyInt(12345)>> >>
    /\ result.data.changed = <<"total_forward_energy", "raw_total_forward_energy">>
    /\ attrs["raw_total_forward_energy"] = PyInt(12345)
    /\ DOMAIN attrs = DOMAIN InitAttrs

\* The values relay_power_on_status is listed to take.
AllowedRelayStatus == {"0", "1", "2"}

\* Item j of the payload is a known scalar field whose value differs from
\* the comparison key stored before the call.
ItemChanges(payload, j) ==
    /\ payload[j][1] \in DOMAIN dps_data_class
    /\ ~PyEq(attrs[IF TracksRaw(payload[j][1])
                      THEN raw_name(dps_data_class[payload[j][1]].name)
                      ELSE dps_data_class[payload[j][1]].name],
             payload[j][2])

\* C14: _inspect_data of a payload in which data point 134 carries a value
\* outside {'0', '1', '2'} returns; relay_power_on_status holds that value
\* unchanged, it is in 'changed' exactly when the value differs from the
\* stored one, and every other scalar entry of the payload is stored and
\* reported as in any payload.
C14_EnumMismatchIsKept ==
    [][(/\ IsPayloadCall(result')
        /\ \E j \in 1..Len(PayloadOf(result')) :
              /\ PayloadOf(result')[j][1] = "134"
              /\ PayloadOf(result')[j][2].v \notin AllowedRelayStatus)
       => LET payload == PayloadOf(result')
              changed == Range(result'.data.changed)
          IN  /\ Returned(result')
              /\ \A j \in 1..Len(payload) :
                    payload[j][1] \in DOMAIN dps_data_class
                    => /\ IsDecodeOf(payload[j][1],
                                     attrs'[dps_data_class[payload[j][1]].name],
                                     payload[j][2])
                       /\ dps_data_class[payload[j][1]].name \in changed
                             <=> ItemChanges(payload, j)
              /\ \A j \in 1..Len(payload) :
                    payload[j][1] = "134"
                    => attrs'["relay_power_on_status"] = payload[j][2]]_vars

\* C14's case: a payload with '7' for data point 134 before data point 103
\* has been applied: '7' is stored and reported, and 103 is processed.
C14_Witness ==
    /\ IsPayloadCall(result)
    /\ PayloadOf(result) = << <<"134", PyStr("7")>>, <<"103", PyInt(25)>> >>
    /\ Returned(result)
    /\ attrs["relay_power_on_status"] = PyStr("7")
    /\ attrs["temp_current"] = PyInt(25)
    /\ result.data.changed
          = <<"relay_power_on_status", "temp_current", "raw_temp_current">>

\* The calls on the first object.
IsOwnCall(r) == r.op \in {"__init__", "_inspect_data", "setValue", "setValues"}

\* C15: two BreakerDevice objects are independent: a construction of the
\* first object (also after the second exists), an _inspect_data, a
\* setValue or a setValues on it leaves the second object's attributes,
\* cached raw values, sensor lists and delayed_updates as they were, and
\* leaves what parseValue resolves for the second object and which of its
\* fields cache a raw value as they were.
C15_InstancesIndependent ==
    [][(other.constructed /\ IsOwnCall(result'))
       => /\ other' = other
          /\ \A item \in TwoValItems :
                parseValue(item[1], item[2])' = parseValue(item[1], item[2])
          /\ \A k \in DOMAIN dps_data_class : CheckRaw(k)' = CheckRaw(k)]_vars

\* C15's case: the first object has been constructed while the second one
\* holds a received value, a sensor entry and a pending update.
C15_Witness ==
    /\ result.op = "__init__"
    /\ Constructed
    /\ other.constructed
    /\ other.attrs["raw_total_forward_energy"] = PyInt(12345)
    /\ other.sensorlists[3].sensors # <<>>
    /\ DOMAIN other.delayed_updates = {"1", "16"}

\* The entries of a record have alert types that differ from one another.
DistinctTypes(bytes) ==
    \A e, f \in 0..(Len(bytes) \div 4 - 1) : bytes[4 * e + 1] = bytes[4 * f + 1] => e = f

\* The entry called name that a group holds.
EntryNamed(sensors, name) ==
    sensors[CHOOSE j \in 1..Len(sensors) : sensors[j].name = name]

\* C16: a successful update of an alarm group reports an entry it held
\* before the call exactly when the call has stored a threshold, an
\* enabled flag or a unit that differs from the one held before; e.g.
\* over_current with raw 100 and then raw 104 (10.0 and 10.4) is reported.
C16_ThresholdChangeReported ==
    [][\A i \in {2, 3} :
        (/\ UpdateStep(i)
         /\ WellFormed(i, result'.args[2])
         /\ DistinctTypes(InputBytes(result'.args[2])))
        => /\ Returned(result')
           /\ \A name \in RecordNames(i, InputBytes(result'.args[2]))
                            \cap Range(NamesOf(sensorlists[i].sensors)) :
                 name \in Range(result'.out.value.v)
                    <=> EntryView(EntryNamed(sensorlists'[i].sensors, name))
                           # EntryView(EntryNamed(sensorlists[i].sensors, name))]_vars

\* The payload gives alarm group i a non-empty record of a bad length or
\* with an unknown alert type, and gives no sensor group an empty record.
FailsInGroup(payload, i) ==
    /\ \E j \in 1..Len(payload) :
          /\ payload[j][1] = sensor_dps[i]
          /\ IsBinary(payload[j][2])
          /\ Len(InputBytes(payload[j][2])) > 0
          /\ \/ Len(InputBytes(payload[j][2])) % 4 # 0
             \/ HasUnknownType(sensor_dps[i], InputBytes(payload[j][2]))
    /\ \A j \in 1..Len(payload) :
          payload[j][1] \in Range(sensor_dps) => Len(payload[j][2].v) > 0

\* C17: an _inspect_data that a sensor group ends with a decode error (bad
\* length or unknown alert type) leaves the device as before the call: no
\* attribute of a scalar field is stored and no other sensor group of the
\* payload is updated.
C17_ApplyIsAtomic ==
    [][\A i \in {2, 3} :
        (IsPayloadCall(result') /\ FailsInGroup(PayloadOf(result'), i))
        => /\ Raised(result')
           /\ attrs' = attrs
           /\ \A j \in 1..Len(sensor_dps) :
                 j # i => EntriesView(sensorlists'[j].sensors)
                             = EntriesView(sensorlists[j].sensors)]_vars

\* C18: with delay_updates false, a setValues call that succeeds sends one
\* payload, whose ids are those of the call's entries, each with the value
\* the call encoded, and leaves delayed_updates empty, whatever calls came
\* before it, a setValues that failed on an unresolvable name included.
C18_ImmediateSendsOwnEntries ==
    [][(/\ ~delay_updates
        /\ result'.op = "setValues"
        /\ Returned(result'))
       => /\ Len(sent') = Len(sent) + 1
          /\ SubSeq(sent', 1, Len(sent)) = sent
          /\ IsPayloadOfCall(sent'[Len(sent')], CallEntries(result'))
          /\ DOMAIN delayed_updates' = {}]_vars

\* The data points whose fields cache the raw value.
RawTracked == {"1", "16", "11", "14", "13", "103", "104", "102", "107"}

\* The field of data point k holds the decode of the raw value cached for
\* it, or both are unset.
RawConsistent(at, k) ==
    LET value == at[dps_data_class[k].name]
        raw   == at[raw_name(dps_data_class[k].name)]
    IN  IF raw.t = "None" THEN value.t = "None"
        ELSE IsDecodeOf(k, value, raw)

\* C19: whatever payloads of well-typed scalar data points _inspect_data
\* has returned from, every field that caches its raw value holds the
\* decode of that raw value; after a call both are those of the raw value
\* the call was given for the data point, and a field whose data point is
\* not in the payload keeps what it had, unset from construction on.
C19_ValueMatchesRaw ==
    /\ [](\A k \in RawTracked : RawConsistent(attrs, k))
    /\ [][IsPayloadCall(result')
          => /\ Returned(result')
             /\ \A k \in RawTracked :
                  LET name == dps_data_class[k].name
                  IN  IF k \in Keys(PayloadOf(result'))
                         THEN /\ PyEq(attrs'[raw_name(name)], Get(PayloadOf(result'), k))
                              /\ IsDecodeOf(k, attrs'[name], Get(PayloadOf(result'), k))
                         ELSE /\ attrs'[name] = attrs[name]
                              /\ attrs'[raw_name(name)] = attrs[raw_name(name)]]_vars

\* C19's case: data point 1 has been given 150 after an earlier value and
\* data point 16 False; total_forward_energy holds 1.5, switch False, and
\* temp_current, never given, is unset.
C19_Witness ==
    /\ IsPayloadCall(result)
    /\ PayloadOf(result) = << <<"1", PyInt(150)>>, <<"16", PyBool(FALSE)>> >>
    /\ Returned(result)
    /\ result.data.changed = <<"total_forward_energy", "raw_total_forward_energy">>
    /\ attrs["raw_total_forward_energy"] = PyInt(150)
    /\ attrs["total_forward_energy"] = [t |-> "float", n |-> 3, d |-> 2]
    /\ attrs["raw_switch"] = PyBool(FALSE)
    /\ attrs["switch"] = PyBool(FALSE)
    /\ attrs["temp_current"] = None
    /\ attrs["raw_temp_current"] = None

\* C20: a successful non-empty update of an alarm group removes no entry:
\* every entry keeps its position, one whose alert type the record lacks
\* keeps its threshold, enabled flag and unit and is not reported, and new
\* names come after the existing ones; and an update of a cleared group
\* with the record it accepted last reports every entry of the record.
C20_AlarmGroupGrows ==
    [][\A i \in {2, 3} :
        (UpdateStep(i) /\ WellFormed(i, result'.args[2]))
        => LET before   == sensorlists[i].sensors
               after    == sensorlists'[i].sensors
               names    == RecordNames(i, InputBytes(result'.args[2]))
               reported == Range(result'.out.value.v)
           IN  /\ Returned(result')
               /\ Len(after) >= Len(before)
               /\ SubSeq(NamesOf(after), 1, Len(before)) = NamesOf(before)
               /\ Range(NamesOf(after)) = Range(NamesOf(before)) \cup names
               /\ \A j \in 1..Len(before) :
                     before[j].name \notin names
                     => /\ EntryView(after[j]) = EntryView(before[j])
                        /\ before[j].name \notin reported
               /\ (before = <<>> /\ InputBytes(result'.args[2]) = sensorlists[i].last_state)
                  => names \subseteq reported]_vars

\* C20's case: group 18, holding over_current, has taken a record with
\* overvoltage alone: over_current keeps its place and its threshold, and
\* overvoltage comes after it and is the one entry reported.
C20_Witness ==
    /\ result.op = "update"
    /\ result.args = <<3, PyBytes(<<3, 2, 1, 4>>)>>
    /\ Returned(result)
    /\ result.out.value.v = <<"overvoltage">>
    /\ NamesOf(sensorlists[3].sensors) = <<"over_current", "overvoltage">>
    /\ sensorlists[3].sensors[1].threshold = [t |-> "float", n |-> 52, d |-> 5]

====
